---- MODULE Spec2Model ----
(***************************************************************************)
(* LibraryApp: a console book inventory (library_app/book.py,              *)
(* library_app/library.py, library_app/main.py).                           *)
(*                                                                         *)
(* The state is the Library object (its ordered dict `books`), the backing *)
(* file library.json, and the position of the single thread: every         *)
(* input() call is a point where the program waits for the operator, so    *)
(* there is one action per input() call, and an action runs the handler    *)
(* from that call to the next input() call or to its return.               *)
(*                                                                         *)
(* Spec runs the whole menu over no backing file or a small one, SpecLoad  *)
(* loads any backing file and adds, SpecStored runs the whole menu over a  *)
(* file of three different books, SpecIds runs the whole menu from no      *)
(* backing file with few field entries and records the deleted ids, and    *)
(* SpecBook calls Book(...) and Book.from_dict(...) directly on arguments  *)
(* of every kind.                                                          *)
(*                                                                         *)
(* Text is a sequence of one-character strings.  The Cyrillic letters of   *)
(* the two status words are written cy_v, cy_n, ... (upper case CY_V, ...).*)
(***************************************************************************)
EXTENDS Integers, Sequences, FiniteSets, TLC

(***************************************************************************)
(* Bounds of the model.                                                    *)
(***************************************************************************)
\* ChooseAdd is not offered once the next id would exceed MaxId.
MaxId == 3

(***************************************************************************)
(* Text: str.lower, str.strip, int(), regular expressions.                 *)
(***************************************************************************)
UpperLower ==
    { <<"A", "a">>, <<"B", "b">>, <<"D", "d">>, <<"E", "e">>, <<"I", "i">>,
      <<"L", "l">>, <<"S", "s">>, <<"U", "u">>, <<"V", "v">>,
      <<"CY_V", "cy_v">>, <<"CY_N", "cy_n">>, <<"CY_A", "cy_a">>,
      <<"CY_L", "cy_l">>, <<"CY_I", "cy_i">>, <<"CY_CH", "cy_ch">>,
      <<"CY_Y", "cy_y">>, <<"CY_D", "cy_d">> }

LowerChar(c) ==
    IF \E p \in UpperLower : p[1] = c
    THEN (CHOOSE p \in UpperLower : p[1] = c)[2]
    ELSE c

\* str.lower()
lower(s) == [i \in 1..Len(s) |-> LowerChar(s[i])]

IsSpace(c) == c = " "

RECURSIVE lstrip(_)
lstrip(s) == IF s # <<>> /\ IsSpace(Head(s)) THEN lstrip(Tail(s)) ELSE s

RECURSIVE rstrip(_)
rstrip(s) ==
    IF s # <<>> /\ IsSpace(s[Len(s)]) THEN rstrip(SubSeq(s, 1, Len(s) - 1)) ELSE s

\* str.strip()
strip(s) == rstrip(lstrip(s))

DigitChars == <<"0", "1", "2", "3", "4", "5", "6", "7", "8", "9">>

IsDigit(c) == \E i \in 1..Len(DigitChars) : DigitChars[i] = c

DigitVal(c) == (CHOOSE i \in 1..Len(DigitChars) : DigitChars[i] = c) - 1

\* int(s) for a string of decimal digits
RECURSIVE ToInt(_)
ToInt(s) ==
    IF s = <<>> THEN 0
    ELSE 10 * ToInt(SubSeq(s, 1, Len(s) - 1)) + DigitVal(s[Len(s)])

\* re.match(r"^.+$", s)
MatchNonEmpty(s) == Len(s) >= 1

\* re.match(r"^\d{4}$", s)
MatchYear(s) == Len(s) = 4 /\ \A i \in 1..Len(s) : IsDigit(s[i])

\* re.match(r"^\d+$", s)
MatchId(s) == Len(s) >= 1 /\ \A i \in 1..Len(s) : IsDigit(s[i])

\* re.match(r"^[1-4]$", s)
MatchChoice(s) == s \in {<<"1">>, <<"2">>, <<"3">>, <<"4">>}

(***************************************************************************)
(* book.py: BookStatus                                                     *)
(***************************************************************************)
AVAILABLE == "AVAILABLE"
ISSUED == "ISSUED"
None == "None"

\* the members, in definition order
BookStatus == <<AVAILABLE, ISSUED>>

\* BookStatus.<member>.value
StatusValue(st) ==
    IF st = AVAILABLE
    THEN <<"cy_v", " ", "cy_n", "cy_a", "cy_l", "cy_i", "cy_ch", "cy_i", "cy_i">>
    ELSE <<"cy_v", "cy_y", "cy_d", "cy_a", "cy_n", "cy_a">>

\* BookStatus.<member>.name
StatusName(st) ==
    IF st = AVAILABLE
    THEN <<"A", "V", "A", "I", "L", "A", "B", "L", "E">>
    ELSE <<"I", "S", "S", "U", "E", "D">>

\* re.match(r"^(?:0|1|в наличии|выдана)$", s): case-sensitive
MatchStatus(s) ==
    s \in {<<"0">>, <<"1">>, StatusValue(AVAILABLE), StatusValue(ISSUED)}

\* BookStatus.from_input: the first member whose value or name, lower-cased,
\* equals the lower-cased, stripped input
from_input(input_str) ==
    LET s == strip(lower(input_str))
        hit(st) == s = lower(StatusValue(st)) \/ s = lower(StatusName(st))
    IN  IF \E i \in 1..Len(BookStatus) : hit(BookStatus[i])
        THEN BookStatus[CHOOSE i \in 1..Len(BookStatus) :
                            /\ hit(BookStatus[i])
                            /\ \A j \in 1..(i - 1) : ~hit(BookStatus[j])]
        ELSE None

\* the member looked up with from_input instead of BookStatus(value)
StatusByInput(v) == from_input(v)

\* BookStatus(value): the member with exactly that value, else ValueError
StatusByValue(v) ==
    IF v = StatusValue(AVAILABLE) THEN AVAILABLE
    ELSE IF v = StatusValue(ISSUED) THEN ISSUED
    ELSE None

(***************************************************************************)
(* Values as Python and JSON see them: a tag and a payload.                *)
(***************************************************************************)
PyInt(n) == [t |-> "int", v |-> n]
PyStr(s) == [t |-> "str", s |-> s]
PyNone == [t |-> "null", v |-> 0]
\* a float, by its number of tenths: PyFloat(15) is 1.5
PyFloat(tenths) == [t |-> "float", v |-> tenths]
\* True is PyBool(1), False is PyBool(0)
PyBool(b) == [t |-> "bool", v |-> b]
\* a list, by its length
PyList(n) == [t |-> "list", v |-> n]

\* `not x`
Falsy(x) ==
    \/ x.t = "null"
    \/ x.t \in {"int", "float", "bool", "list"} /\ x.v = 0
    \/ x.t = "str" /\ x.s = <<>>

\* int() of a string: surrounding whitespace and one sign are allowed
IntOfStr(s) ==
    LET u == strip(s)
        signed == u # <<>> /\ Head(u) \in {"+", "-"}
        digits == IF signed THEN Tail(u) ELSE u
    IN  IF MatchId(digits)
        THEN [err |-> "ok",
              v |-> IF signed /\ Head(u) = "-" THEN 0 - ToInt(digits) ELSE ToInt(digits)]
        ELSE [err |-> "ValueError", v |-> 0]

\* int(x): [err, v]; a float is truncated towards zero
IntOf(x) ==
    IF x.t \in {"int", "bool"} THEN [err |-> "ok", v |-> x.v]
    ELSE IF x.t = "float"
         THEN [err |-> "ok",
               v |-> IF x.v >= 0 THEN x.v \div 10 ELSE 0 - ((0 - x.v) \div 10)]
    ELSE IF x.t = "str" THEN IntOfStr(x.s)
    ELSE [err |-> "TypeError", v |-> 0]

(***************************************************************************)
(* book.py: Book                                                           *)
(***************************************************************************)
NoBook == [id |-> 0, title |-> <<>>, author |-> <<>>, year |-> 0, status |-> None]

\* Book.__init__: [err, book]
BookInit(book_id, title, author, year, status) ==
    IF book_id.t # "int" THEN [err |-> "TypeError", book |-> NoBook]
    ELSE IF year.t # "int" THEN [err |-> "TypeError", book |-> NoBook]
    ELSE IF Falsy(title) \/ Falsy(author) THEN [err |-> "ValueError", book |-> NoBook]
    ELSE IF title.t # "str" \/ author.t # "str" THEN [err |-> "TypeError", book |-> NoBook]
    ELSE [err |-> "ok",
          book |-> [id |-> book_id.v, title |-> title.s, author |-> author.s,
                    year |-> year.v, status |-> status]]

\* Book(**arg): status is BookStatus.AVAILABLE unless it is passed
BookNew(arg) ==
    BookInit(arg.book_id, arg.title, arg.author, arg.year,
             IF "status" \in DOMAIN arg THEN arg.status ELSE AVAILABLE)

\* to_dict writing the member's name instead of its value
to_dict_name(book) ==
    [id |-> PyInt(book.id), title |-> PyStr(book.title), author |-> PyStr(book.author),
     year |-> PyInt(book.year), status |-> PyStr(StatusName(book.status))]

\* Book.to_dict
to_dict(book) ==
    [id |-> PyInt(book.id), title |-> PyStr(book.title), author |-> PyStr(book.author),
     year |-> PyInt(book.year), status |-> PyStr(StatusValue(book.status))]

required_keys == {"id", "title", "author", "year", "status"}

\* from_dict leaving the status to the constructor's default
from_dict_default_status(data) ==
    IF ~(required_keys \subseteq DOMAIN data) THEN [err |-> "KeyError", book |-> NoBook]
    ELSE IF IntOf(data.id).err # "ok" THEN [err |-> IntOf(data.id).err, book |-> NoBook]
    ELSE IF IntOf(data.year).err # "ok" THEN [err |-> IntOf(data.year).err, book |-> NoBook]
    ELSE IF data.status.t # "str" \/ StatusByValue(data.status.s) = None
         THEN [err |-> "ValueError", book |-> NoBook]
    ELSE BookInit(PyInt(IntOf(data.id).v), data.title, data.author,
                  PyInt(IntOf(data.year).v), AVAILABLE)

\* Book.from_dict: [err, book]
from_dict(data) ==
    IF ~(required_keys \subseteq DOMAIN data) THEN [err |-> "KeyError", book |-> NoBook]
    ELSE IF IntOf(data.id).err # "ok" THEN [err |-> IntOf(data.id).err, book |-> NoBook]
    ELSE IF IntOf(data.year).err # "ok" THEN [err |-> IntOf(data.year).err, book |-> NoBook]
    ELSE IF data.status.t # "str" \/ StatusByValue(data.status.s) = None
         THEN [err |-> "ValueError", book |-> NoBook]
    ELSE BookInit(PyInt(IntOf(data.id).v), data.title, data.author,
                  PyInt(IntOf(data.year).v), StatusByValue(data.status.s))

(***************************************************************************)
(* library.py: the dict `books` (insertion-ordered) and the backing file   *)
(***************************************************************************)
\* an assignment that puts a new key before the keys the dict holds
DictSetFirst(d, key, value) ==
    IF \E i \in 1..Len(d) : d[i].key = key
    THEN [i \in 1..Len(d) |-> IF d[i].key = key THEN [key |-> key, book |-> value] ELSE d[i]]
    ELSE <<[key |-> key, book |-> value]>> \o d

\* d[key] = value on an insertion-ordered dict: a present key keeps its place
DictSet(d, key, value) ==
    IF \E i \in 1..Len(d) : d[i].key = key
    THEN [i \in 1..Len(d) |-> IF d[i].key = key THEN [key |-> key, book |-> value] ELSE d[i]]
    ELSE Append(d, [key |-> key, book |-> value])

\* a delete by position in the collection instead of by key
DictDelAt(d, key) ==
    LET p == IF key.v < Len(d) THEN key.v ELSE Len(d)
    IN  SubSeq(d, 1, p - 1) \o SubSeq(d, p + 1, Len(d))

\* del d[key]
DictDel(d, key) == SelectSeq(d, LAMBDA e : e.key # key)

\* key in d
DictHas(d, key) == \E i \in 1..Len(d) : d[i].key = key

\* d[key]
DictGet(d, key) == d[CHOOSE i \in 1..Len(d) : d[i].key = key].book

Max(S) == CHOOSE x \in S : \A y \in S : y <= x

\* the largest key itself, without the + 1
GenerateIdAsMax(bks) ==
    IF bks = <<>> THEN 1
    ELSE Max({bks[i].key.v : i \in 1..Len(bks)})

\* an id from the number of books instead of the largest key
GenerateIdByCount(bks) == Len(bks) + 1

\* the smallest positive id that is not a key
GenerateIdFirstFree(bks) ==
    CHOOSE n \in 1..(Len(bks) + 1) :
        /\ \A i \in 1..Len(bks) : bks[i].key.v # n
        /\ \A m \in 1..(n - 1) : \E i \in 1..Len(bks) : bks[i].key.v = m

\* Library._generate_id
GenerateId(bks) ==
    IF bks = <<>> THEN 1
    ELSE Max({bks[i].key.v : i \in 1..Len(bks)}) + 1

FileAbsent == [kind |-> "absent", data |-> <<>>]
FileInvalid == [kind |-> "invalid", data |-> <<>>]
FileOf(data) == [kind |-> "valid", data |-> data]

\* the dict comprehension of _load_library over the first n elements
RECURSIVE LoadData(_, _)
LoadData(data, n) ==
    IF n = 0 THEN [err |-> "ok", books |-> <<>>]
    ELSE LET rest == LoadData(data, n - 1)
             b == from_dict(data[n])
         IN  IF rest.err # "ok" THEN rest
             ELSE IF ~("id" \in DOMAIN data[n]) THEN [err |-> "KeyError", books |-> <<>>]
             ELSE IF b.err # "ok" THEN [err |-> b.err, books |-> <<>>]
             ELSE [err |-> "ok", books |-> DictSet(rest.books, data[n].id, b.book)]

\* _load_library opening the file without the os.path.exists test
LoadLibraryStrict(f) ==
    IF f.kind = "absent" THEN [err |-> "FileNotFoundError", msg |-> "none", books |-> <<>>]
    ELSE IF f.kind = "invalid" THEN [err |-> "ok", msg |-> "json_decode_error", books |-> <<>>]
    ELSE [err |-> LoadData(f.data, Len(f.data)).err, msg |-> "none",
          books |-> LoadData(f.data, Len(f.data)).books]

\* _load_library without its except clause: the decode error propagates
LoadLibraryRaising(f) ==
    IF f.kind = "absent" THEN [err |-> "ok", msg |-> "file_not_found", books |-> <<>>]
    ELSE IF f.kind = "invalid" THEN [err |-> "JSONDecodeError", msg |-> "none", books |-> <<>>]
    ELSE [err |-> LoadData(f.data, Len(f.data)).err, msg |-> "none",
          books |-> LoadData(f.data, Len(f.data)).books]

\* Library._load_library: [err, msg, books]
LoadLibrary(f) ==
    IF f.kind = "absent" THEN [err |-> "ok", msg |-> "file_not_found", books |-> <<>>]
    ELSE IF f.kind = "invalid" THEN [err |-> "ok", msg |-> "json_decode_error", books |-> <<>>]
    ELSE [err |-> LoadData(f.data, Len(f.data)).err, msg |-> "none",
          books |-> LoadData(f.data, Len(f.data)).books]

\* Library._save_library: the new content of the backing file
SaveLibrary(bks) == FileOf([i \in 1..Len(bks) |-> to_dict(bks[i].book)])

max_attempts == 3

\* _get_valid_input asking again after an empty entry without counting it
GetValidInputSkippingEmpty(entry, matches, attempt) ==
    LET user_input == strip(entry)
    IN  IF user_input = <<>>
        THEN [kind |-> "again", value |-> <<>>, attempt |-> attempt]
        ELSE IF matches
             THEN [kind |-> "value", value |-> user_input, attempt |-> attempt]
             ELSE IF attempt + 1 < max_attempts
                  THEN [kind |-> "again", value |-> <<>>, attempt |-> attempt + 1]
                  ELSE [kind |-> "none", value |-> <<>>, attempt |-> attempt + 1]

\* one pass of the loop of Library._get_valid_input: [kind, value, attempt]
GetValidInput(entry, matches, attempt) ==
    LET user_input == strip(entry)
    IN  IF user_input # <<>> /\ matches
        THEN [kind |-> "value", value |-> user_input, attempt |-> attempt]
        ELSE IF attempt + 1 < max_attempts
             THEN [kind |-> "again", value |-> <<>>, attempt |-> attempt + 1]
             ELSE [kind |-> "none", value |-> <<>>, attempt |-> attempt + 1]

\* str(n), n >= 0
RECURSIVE Str(_)
Str(n) == IF n < 10 THEN <<DigitChars[n + 1]>> ELSE Str(n \div 10) \o <<DigitChars[(n % 10) + 1]>>

\* sub in s
Contains(sub, s) ==
    \E i \in 1..(Len(s) - Len(sub) + 1) : SubSeq(s, i, i + Len(sub) - 1) = sub

\* datetime.datetime.now().year
current_year == 2026

\* the range check without its upper end
YearFromThousand(year_str) == 1000 <= ToInt(year_str)

\* the range check that ends Library._get_book_data, on an accepted year_str
YearInRange(year_str) == 1000 <= ToInt(year_str) /\ ToInt(year_str) <= current_year

NoData == [ok |-> FALSE, title |-> <<>>, author |-> <<>>, year |-> 0]

\* the return value of Library._get_book_data once year_str was accepted
GetBookData(t, a, year_str) ==
    IF YearInRange(year_str)
    THEN [ok |-> TRUE, title |-> t, author |-> a, year |-> ToInt(year_str)]
    ELSE NoData

\* add_book calling _save_library after the if, on both branches
add_book_saving(bks, f, book_data) ==
    IF book_data.ok
    THEN LET new_book == BookInit(PyInt(GenerateId(bks)), PyStr(book_data.title),
                                  PyStr(book_data.author), PyInt(book_data.year),
                                  AVAILABLE).book
             nb == DictSet(bks, PyInt(new_book.id), new_book)
         IN  [books |-> nb, file |-> SaveLibrary(nb), saved |-> TRUE,
              id |-> new_book.id, outcome |-> "added"]
    ELSE [books |-> bks, file |-> SaveLibrary(bks), saved |-> TRUE, id |-> 0,
          outcome |-> "no_data"]

\* add_book inserting the Book without calling _save_library
add_book_unsaved(bks, f, book_data) ==
    IF book_data.ok
    THEN LET new_book == BookInit(PyInt(GenerateId(bks)), PyStr(book_data.title),
                                  PyStr(book_data.author), PyInt(book_data.year),
                                  AVAILABLE).book
             nb == DictSet(bks, PyInt(new_book.id), new_book)
         IN  [books |-> nb, file |-> f, saved |-> FALSE,
              id |-> new_book.id, outcome |-> "added"]
    ELSE [books |-> bks, file |-> f, saved |-> FALSE, id |-> 0, outcome |-> "no_data"]

\* Library.add_book after _get_book_data returned: [books, file, saved, id, outcome]
add_book(bks, f, book_data) ==
    IF book_data.ok
    THEN LET new_book == BookInit(PyInt(GenerateId(bks)), PyStr(book_data.title),
                                  PyStr(book_data.author), PyInt(book_data.year),
                                  AVAILABLE).book
             nb == DictSet(bks, PyInt(new_book.id), new_book)
         IN  [books |-> nb, file |-> SaveLibrary(nb), saved |-> TRUE,
              id |-> new_book.id, outcome |-> "added"]
    ELSE [books |-> bks, file |-> f, saved |-> FALSE, id |-> 0, outcome |-> "no_data"]

\* Library._get_book_id on the result r of _get_valid_input
GetBookId(r) == IF r.kind = "value" THEN PyInt(ToInt(r.value)) ELSE PyNone

\* delete_book calling _save_library also when the id is not in books
delete_book_saving(bks, f, book_id) ==
    IF book_id = PyNone
    THEN [books |-> bks, file |-> f, saved |-> FALSE, id |-> 0, outcome |-> "no_id"]
    ELSE IF DictHas(bks, book_id)
         THEN [books |-> DictDel(bks, book_id), file |-> SaveLibrary(DictDel(bks, book_id)),
               saved |-> TRUE, id |-> book_id.v, outcome |-> "deleted"]
         ELSE [books |-> bks, file |-> SaveLibrary(bks), saved |-> TRUE, id |-> book_id.v,
               outcome |-> "not_found"]

\* Library.delete_book after _get_book_id returned: [books, file, saved, id, outcome]
delete_book(bks, f, book_id) ==
    IF book_id = PyNone
    THEN [books |-> bks, file |-> f, saved |-> FALSE, id |-> 0, outcome |-> "no_id"]
    ELSE IF DictHas(bks, book_id)
         THEN [books |-> DictDel(bks, book_id), file |-> SaveLibrary(DictDel(bks, book_id)),
               saved |-> TRUE, id |-> book_id.v, outcome |-> "deleted"]
         ELSE [books |-> bks, file |-> f, saved |-> FALSE, id |-> book_id.v,
               outcome |-> "not_found"]

\* Library._get_new_book_status on the result r of _get_valid_input
GetNewBookStatus(r) == IF r.kind = "value" THEN from_input(r.value) ELSE None

\* the new status given to every Book, not only to the one stored under key
SetStatusAll(bks, key, new_status) ==
    [i \in 1..Len(bks) |->
        [key |-> bks[i].key, book |-> [bks[i].book EXCEPT !.status = new_status]]]

\* book.status = new_status on the Book stored under key
SetStatus(bks, key, new_status) ==
    [i \in 1..Len(bks) |->
        IF bks[i].key = key
        THEN [key |-> key, book |-> [bks[i].book EXCEPT !.status = new_status]]
        ELSE bks[i]]

\* change_book_status without its call of _save_library
change_book_status_unsaved(bks, f, book_id, new_status) ==
    IF new_status = DictGet(bks, book_id).status
    THEN [books |-> bks, file |-> f, saved |-> FALSE, id |-> book_id.v, outcome |-> "already"]
    ELSE IF new_status = None
         THEN [books |-> bks, file |-> f, saved |-> FALSE, id |-> book_id.v,
               outcome |-> "no_status"]
         ELSE [books |-> SetStatus(bks, book_id, new_status), file |-> f,
               saved |-> FALSE, id |-> book_id.v, outcome |-> "changed"]

\* Library.change_book_status from the test after the loop body to the return:
\* [books, file, saved, id, outcome]
change_book_status(bks, f, book_id, new_status) ==
    IF new_status = DictGet(bks, book_id).status
    THEN [books |-> bks, file |-> f, saved |-> FALSE, id |-> book_id.v, outcome |-> "already"]
    ELSE IF new_status = None
         THEN [books |-> bks, file |-> f, saved |-> FALSE, id |-> book_id.v,
               outcome |-> "no_status"]
         ELSE [books |-> SetStatus(bks, book_id, new_status),
               file |-> SaveLibrary(SetStatus(bks, book_id, new_status)),
               saved |-> TRUE, id |-> book_id.v, outcome |-> "changed"]

\* a sequence of books in ascending order of id
RECURSIVE SortById(_)
SortById(bs) ==
    IF bs = <<>> THEN <<>>
    ELSE LET m == CHOOSE i \in 1..Len(bs) :
                      /\ \A j \in 1..Len(bs) : bs[i].id <= bs[j].id
                      /\ \A j \in 1..(i - 1) : bs[j].id # bs[i].id
         IN  <<bs[m]>> \o SortById(SubSeq(bs, 1, m - 1) \o SubSeq(bs, m + 1, Len(bs)))

\* _perform_search comparing the title and the author as they are, not lower-cased
PerformSearchCaseSensitive(ch, search_term, bks) ==
    LET all == [i \in 1..Len(bks) |-> bks[i].book]
        byTitle(b) == Contains(search_term, b.title)
        byAuthor(b) == Contains(search_term, b.author)
        byYear(b) == Contains(search_term, Str(b.year))
    IN  IF ch = <<"1">> THEN SelectSeq(all, byTitle)
        ELSE IF ch = <<"2">> THEN SelectSeq(all, byAuthor)
        ELSE IF ch = <<"3">> THEN SelectSeq(all, byYear)
        ELSE IF ch = <<"4">>
             THEN SelectSeq(all, LAMBDA b : byTitle(b) \/ byAuthor(b) \/ byYear(b))
             ELSE <<>>

\* _perform_search returning its matches sorted by id
PerformSearchSorted(ch, search_term, bks) ==
    LET all == [i \in 1..Len(bks) |-> bks[i].book]
        byTitle(b) == Contains(lower(search_term), lower(b.title))
        byAuthor(b) == Contains(lower(search_term), lower(b.author))
        byYear(b) == Contains(search_term, Str(b.year))
    IN  IF ch = <<"1">> THEN SortById(SelectSeq(all, byTitle))
        ELSE IF ch = <<"2">> THEN SortById(SelectSeq(all, byAuthor))
        ELSE IF ch = <<"3">> THEN SortById(SelectSeq(all, byYear))
        ELSE IF ch = <<"4">>
             THEN SortById(SelectSeq(all, LAMBDA b : byTitle(b) \/ byAuthor(b) \/ byYear(b)))
             ELSE <<>>

\* Library._perform_search
PerformSearch(ch, search_term, bks) ==
    LET all == [i \in 1..Len(bks) |-> bks[i].book]
        byTitle(b) == Contains(lower(search_term), lower(b.title))
        byAuthor(b) == Contains(lower(search_term), lower(b.author))
        byYear(b) == Contains(search_term, Str(b.year))
    IN  IF ch = <<"1">> THEN SelectSeq(all, byTitle)
        ELSE IF ch = <<"2">> THEN SelectSeq(all, byAuthor)
        ELSE IF ch = <<"3">> THEN SelectSeq(all, byYear)
        ELSE IF ch = <<"4">>
             THEN SelectSeq(all, LAMBDA b : byTitle(b) \/ byAuthor(b) \/ byYear(b))
             ELSE <<>>

\* table_data as it was filled, in the order of the mapping, not sorted
UnsortedRows(bks) ==
    [i \in 1..Len(bks) |->
        [id |-> bks[i].key.v, title |-> bks[i].book.title, author |-> bks[i].book.author,
         year |-> bks[i].book.year, status |-> StatusValue(bks[i].book.status)]]

\* sorted(table_data, key=lambda x: int(x[0])) of Library.display_all_books
RECURSIVE SortedRows(_)
SortedRows(bks) ==
    IF bks = <<>> THEN <<>>
    ELSE LET m == CHOOSE i \in 1..Len(bks) :
                      /\ \A j \in 1..Len(bks) : bks[i].key.v <= bks[j].key.v
                      /\ \A j \in 1..(i - 1) : bks[j].key.v # bks[i].key.v
         IN  <<[id |-> bks[m].key.v, title |-> bks[m].book.title,
                 author |-> bks[m].book.author, year |-> bks[m].book.year,
                 status |-> StatusValue(bks[m].book.status)]>>
             \o SortedRows(SubSeq(bks, 1, m - 1) \o SubSeq(bks, m + 1, Len(bks)))

(***************************************************************************)
(* What the operator may type at each prompt, and the backing files the    *)
(* program may be started over.                                            *)
(***************************************************************************)
TitleEntries == { <<>>, <<" ">>, <<" ", "a", "B", " ">> }

AuthorEntries == { <<>>, <<"C", "d">> }

YearEntries ==
    { <<>>, <<"9", "9", "9">>, <<"0", "9", "9", "9">>, <<"2", "0", "2", "6">>,
      <<"2", "0", "2", "7">>, <<"1", "2", "3", "4", "5">> }

\* more titles and years, for the specification that only loads and adds
MoreTitleEntries == TitleEntries \cup { <<"a", "B">>, <<"b">> }

MoreYearEntries == YearEntries \cup { <<"y">>, <<"1", "0", "0", "0">> }

IdEntries == { <<>>, <<"x">>, <<"0", "1">> } \cup { Str(n) : n \in 0..(MaxId + 1) }

StatusEntries ==
    { <<>>, <<"0">>, <<"1">>, <<"2">>,
      StatusValue(AVAILABLE), StatusValue(ISSUED), <<" ">> \o StatusValue(ISSUED),
      <<"CY_V", " ", "cy_n", "cy_a", "cy_l", "cy_i", "cy_ch", "cy_i", "cy_i">>,
      <<"i", "s", "s", "u", "e", "d">> }

ChoiceEntries == { <<>>, <<"1">>, <<"2">>, <<"3">>, <<"4">>, <<"5">> }

TermEntries == { <<>>, <<"A", "b">>, <<"c">>, <<"2", "0">>, <<"z">> }

\* a backing file the program wrote in an earlier run, its records in an order
\* the program does not produce itself
GoodFile ==
      FileOf(<< [id |-> PyInt(2), title |-> PyStr(<<"a", "B">>), author |-> PyStr(<<"C", "d">>),
                 year |-> PyInt(2026), status |-> PyStr(StatusValue(ISSUED))],
                [id |-> PyInt(1), title |-> PyStr(<<"a", "B">>), author |-> PyStr(<<"C", "d">>),
                 year |-> PyInt(2026), status |-> PyStr(StatusValue(AVAILABLE))] >>)

\* a JSON file with a record whose status is no display string
BadFile ==
      FileOf(<< [id |-> PyInt(1), title |-> PyStr(<<"a", "B">>), author |-> PyStr(<<"C", "d">>),
                 year |-> PyInt(1000), status |-> PyStr(<<"1">>)] >>)

\* a backing file of three different books, stored neither in id order nor in
\* reverse id order
RichFile ==
      FileOf(<< [id |-> PyInt(3), title |-> PyStr(<<"A", "b">>), author |-> PyStr(<<"C", "d">>),
                 year |-> PyInt(2019), status |-> PyStr(StatusValue(AVAILABLE))],
                [id |-> PyInt(1), title |-> PyStr(<<"c">>), author |-> PyStr(<<"a", "b">>),
                 year |-> PyInt(2008), status |-> PyStr(StatusValue(ISSUED))],
                [id |-> PyInt(2), title |-> PyStr(<<"A", "B", "a">>), author |-> PyStr(<<"d">>),
                 year |-> PyInt(2020), status |-> PyStr(StatusValue(AVAILABLE))] >>)

\* more search terms, for the specification over the three different books
MoreTermEntries ==
    { <<>>, <<"a", "B">>, <<"b">>, <<"C">>, <<"2", "0">>, <<"2", "0", "1">>, <<"8">>,
      <<"z">>, <<" ", "a", "b">> }

FewStatusEntries == { <<"2">>, StatusValue(AVAILABLE), StatusValue(ISSUED) }

InitFiles == { FileAbsent, GoodFile }

AnyFiles == { FileAbsent, GoodFile, FileInvalid, BadFile }

(***************************************************************************)
(* State                                                                   *)
(***************************************************************************)
VARIABLES
    pc,          \* where the thread waits: "init", "menu", a prompt, "exited", "crashed";
                 \* for a direct call of book.py: "call", "returned", "raised"
    books,       \* Library.books, in insertion order: <<[key, book], ...>>
    file,        \* library.json: [kind, data]
    attempt,     \* `attempt` of the running _get_valid_input
    attempts,    \* `attempts` of change_book_status
    title,       \* `title` of _get_book_data
    author,      \* `author` of _get_book_data
    book_id,     \* `book_id` of change_book_status
    choice,      \* `choice` of search_book
    \* history of the running (or last) operation
    op,          \* its name
    outcome,     \* how it returned; "none" while it runs
    snapBooks,   \* books when it started
    snapFile,    \* file when it started
    lastId,      \* the id it added, deleted, changed or looked up; else 0
    typed,       \* the accepted entries of Add, as typed
    status_input,\* the last `status_input` of _get_new_book_status; <<>> for None
    asked,       \* entries read by the _get_valid_input that ended the operation
    wrote,       \* _save_library was called in this operation
    results,     \* what search_book found
    table,       \* the rows display_all_books printed
    origin,      \* the kind of backing file the first Library was built over
    prompted,    \* how often the field now asked for was prompted in this operation
    query,       \* the criterion and the term of search_book, as typed
    call,        \* a direct call of Book(...) or Book.from_dict(...): fn and its argument
    made,        \* what that call returned or raised: [err, book]
    freed        \* the id the last successful Delete removed, and whether exactly one
                 \* Add or Change-status has succeeded since; id 0 after any more;
                 \* recorded in the executions of SpecIds only

prog == <<pc, books, file, attempt, attempts, title, author, book_id, choice>>
hist == <<op, outcome, snapBooks, snapFile, lastId, typed, status_input, asked,
          wrote, results, table, origin, prompted, query, call, made, freed>>
vars == <<prog, hist>>

NoTyped == [title |-> <<>>, author |-> <<>>, year |-> <<>>]

NoQuery == [choice |-> <<>>, term |-> <<>>]

NoCall == [fn |-> "none"]

NotMade == [err |-> "none", book |-> NoBook]

NoFreed == [id |-> 0, used |-> FALSE]

Unrecorded == [id |-> 0, used |-> TRUE]

\* the history of deleted ids after a handler returned res
Freed(res) ==
    IF freed = Unrecorded THEN Unrecorded
    ELSE IF res.outcome = "deleted" THEN [id |-> res.id, used |-> FALSE]
    ELSE IF res.outcome \in {"added", "changed"}
         THEN IF freed.id # 0 /\ ~freed.used THEN [id |-> freed.id, used |-> TRUE] ELSE NoFreed
    ELSE freed

\* the locals and the history before anything has run, over the backing file
InitRest ==
    /\ books = <<>>
    /\ attempt = 0
    /\ attempts = 0
    /\ title = <<>>
    /\ author = <<>>
    /\ book_id = PyNone
    /\ choice = <<>>
    /\ op = "none"
    /\ outcome = "none"
    /\ snapBooks = <<>>
    /\ snapFile = file
    /\ lastId = 0
    /\ typed = NoTyped
    /\ status_input = <<>>
    /\ asked = 0
    /\ wrote = FALSE
    /\ results = <<>>
    /\ table = <<>>
    /\ origin = file.kind
    /\ prompted = 0
    /\ query = NoQuery

InitOver(files) ==
    /\ pc = "init"
    /\ file \in files
    /\ call = NoCall
    /\ made = NotMade
    /\ freed = Unrecorded
    /\ InitRest

\* the program is started over no backing file or over a well-formed one
Init == InitOver(InitFiles)

\* the program is started over any backing file
InitAny == InitOver(AnyFiles)

\* an operation starts: its history is reset
Begin(name) ==
    /\ op' = name
    /\ snapBooks' = books
    /\ snapFile' = file
    /\ typed' = NoTyped
    /\ status_input' = <<>>
    /\ asked' = 0
    /\ query' = NoQuery
    /\ UNCHANGED <<origin, call, made, freed>>

\* the locals of a handler are gone when it returns
DropLocals ==
    /\ attempt' = 0
    /\ attempts' = 0
    /\ title' = <<>>
    /\ author' = <<>>
    /\ book_id' = PyNone
    /\ choice' = <<>>

\* a handler returns to the menu with result res = [books, file, saved, id, outcome]
Return(res) ==
    /\ pc' = "menu"
    /\ books' = res.books
    /\ file' = res.file
    /\ wrote' = res.saved
    /\ lastId' = res.id
    /\ outcome' = res.outcome
    /\ prompted' = 0
    /\ freed' = Freed(res)
    /\ DropLocals

\* main, line 9: Library() over the backing file as it is
Construct ==
    /\ pc \in {"init", "exited"}
    /\ LET r == LoadLibrary(file)
       IN  /\ pc' = IF r.err = "ok" THEN "menu" ELSE "crashed"
           /\ books' = r.books
           /\ outcome' = IF r.err = "ok" THEN r.msg ELSE r.err
    /\ Begin("load")
    /\ prompted' = 0
    /\ lastId' = 0
    /\ wrote' = FALSE
    /\ results' = <<>>
    /\ table' = <<>>
    /\ UNCHANGED file
    /\ DropLocals

\* menu choice "1": add_book up to its first input()
ChooseAdd ==
    /\ pc = "menu"
    /\ GenerateId(books) <= MaxId
    /\ pc' = "add_title"
    /\ prompted' = 1
    /\ Begin("add")
    /\ outcome' = "none"
    /\ lastId' = 0
    /\ wrote' = FALSE
    /\ results' = <<>>
    /\ table' = <<>>
    /\ UNCHANGED <<books, file, attempt, attempts, title, author, book_id, choice>>

\* _get_valid_input goes round its loop: the same field is prompted again
Again(r) ==
    /\ r.kind = "again"
    /\ attempt' = r.attempt
    /\ prompted' = prompted + 1
    /\ UNCHANGED <<asked, pc, books, file, attempts, title, author, book_id, choice,
                   outcome, lastId, typed, wrote, freed>>

\* _get_valid_input returned a value and the handler goes on to the prompt `next`
Goto(next) ==
    /\ pc' = next
    /\ attempt' = 0
    /\ prompted' = 1
    /\ UNCHANGED <<asked, books, file, attempts, outcome, lastId, wrote, freed>>

\* the title prompt of _get_book_data
AddTitle(e) ==
    /\ pc = "add_title"
    /\ LET r == GetValidInput(e, MatchNonEmpty(strip(e)), attempt)
       IN  \/ /\ r.kind = "value"
              /\ Goto("add_author")
              /\ title' = r.value
              /\ typed' = [typed EXCEPT !.title = e]
              /\ UNCHANGED <<author, book_id, choice>>
           \/ Again(r)
           \/ /\ r.kind = "none"
              /\ Return(add_book(books, file, NoData))
              /\ asked' = attempt + 1
              /\ UNCHANGED typed
    /\ UNCHANGED <<op, snapBooks, snapFile, status_input, results, table, origin, query, call, made>>

\* the author prompt of _get_book_data
AddAuthor(e) ==
    /\ pc = "add_author"
    /\ LET r == GetValidInput(e, MatchNonEmpty(strip(e)), attempt)
       IN  \/ /\ r.kind = "value"
              /\ Goto("add_year")
              /\ author' = r.value
              /\ typed' = [typed EXCEPT !.author = e]
              /\ UNCHANGED <<title, book_id, choice>>
           \/ Again(r)
           \/ /\ r.kind = "none"
              /\ Return(add_book(books, file, NoData))
              /\ asked' = attempt + 1
              /\ UNCHANGED typed
    /\ UNCHANGED <<op, snapBooks, snapFile, status_input, results, table, origin, query, call, made>>

\* the year prompt of _get_book_data, then the rest of add_book
AddYear(e) ==
    /\ pc = "add_year"
    /\ LET r == GetValidInput(e, MatchYear(strip(e)), attempt)
       IN  \/ /\ r.kind = "value"
              /\ Return(add_book(books, file, GetBookData(title, author, r.value)))
              /\ asked' = attempt + 1
              /\ typed' = [typed EXCEPT !.year = e]
           \/ Again(r)
           \/ /\ r.kind = "none"
              /\ Return(add_book(books, file, NoData))
              /\ asked' = attempt + 1
              /\ UNCHANGED typed
    /\ UNCHANGED <<op, snapBooks, snapFile, status_input, results, table, origin, query, call, made>>

\* menu choice "2": delete_book up to its input()
ChooseDelete ==
    /\ pc = "menu"
    /\ pc' = "del_id"
    /\ prompted' = 1
    /\ Begin("delete")
    /\ outcome' = "none"
    /\ lastId' = 0
    /\ wrote' = FALSE
    /\ results' = <<>>
    /\ table' = <<>>
    /\ UNCHANGED <<books, file, attempt, attempts, title, author, book_id, choice>>

\* the id prompt of delete_book, then the rest of delete_book
DeleteId(e) ==
    /\ pc = "del_id"
    /\ LET r == GetValidInput(e, MatchId(strip(e)), attempt)
       IN  \/ /\ r.kind # "again"
              /\ Return(delete_book(books, file, GetBookId(r)))
              /\ asked' = attempt + 1
              /\ UNCHANGED typed
           \/ Again(r)
    /\ UNCHANGED <<op, snapBooks, snapFile, status_input, results, table, origin, query, call, made>>

\* menu choice "5": change_book_status up to its first input()
ChooseChange ==
    /\ pc = "menu"
    /\ pc' = "chg_id"
    /\ prompted' = 1
    /\ Begin("change")
    /\ outcome' = "none"
    /\ lastId' = 0
    /\ wrote' = FALSE
    /\ results' = <<>>
    /\ table' = <<>>
    /\ UNCHANGED <<books, file, attempt, attempts, title, author, book_id, choice>>

NoChange(oc, id) ==
    [books |-> books, file |-> file, saved |-> FALSE, id |-> id, outcome |-> oc]

\* the id prompt of change_book_status, up to the status prompt or the return
ChangeId(e) ==
    /\ pc = "chg_id"
    /\ LET r == GetValidInput(e, MatchId(strip(e)), attempt)
       IN  \/ /\ r.kind = "none"
              /\ Return(NoChange("no_id", 0))
              /\ asked' = attempt + 1
              /\ UNCHANGED typed
           \/ /\ r.kind = "value"
              /\ ~DictHas(books, GetBookId(r))
              /\ Return(NoChange("not_found", GetBookId(r).v))
              /\ asked' = attempt + 1
              /\ UNCHANGED typed
           \/ /\ r.kind = "value"
              /\ DictHas(books, GetBookId(r))
              /\ pc' = "chg_status"
              /\ book_id' = GetBookId(r)
              /\ lastId' = GetBookId(r).v
              /\ attempt' = 0
              /\ attempts' = 0
              /\ prompted' = 1
              /\ UNCHANGED <<asked, books, file, title, author, choice, outcome, typed, wrote, freed>>
           \/ Again(r)
    /\ UNCHANGED <<op, snapBooks, snapFile, status_input, results, table, origin, query, call, made>>

status_attempts == 3

\* the status prompt of _get_new_book_status inside the loop of
\* change_book_status, up to the next prompt or the return
ChangeStatus(e) ==
    /\ pc = "chg_status"
    /\ LET r == GetValidInput(e, MatchStatus(strip(e)), attempt)
           new_status == GetNewBookStatus(r)
       IN  \/ /\ Again(r)
              /\ UNCHANGED status_input
           \/ /\ r.kind # "again"
              /\ new_status = None
              /\ new_status # DictGet(books, book_id).status
              /\ attempts + 1 < status_attempts
              /\ attempt' = 0
              /\ attempts' = attempts + 1
              /\ prompted' = prompted + 1
              /\ UNCHANGED <<asked, status_input, pc, books, file, title, author, book_id, choice,
                             outcome, lastId, typed, wrote, freed>>
           \/ /\ r.kind # "again"
              /\ \/ new_status # None
                 \/ new_status = DictGet(books, book_id).status
                 \/ ~(attempts + 1 < status_attempts)
              /\ status_input' = r.value
              /\ Return(change_book_status(books, file, book_id, new_status))
              /\ asked' = attempt + 1
              /\ UNCHANGED typed
    /\ UNCHANGED <<op, snapBooks, snapFile, results, table, origin, query, call, made>>

\* menu choice "3": search_book up to its first input()
ChooseSearch ==
    /\ pc = "menu"
    /\ pc' = "search_choice"
    /\ prompted' = 1
    /\ Begin("search")
    /\ outcome' = "none"
    /\ lastId' = 0
    /\ wrote' = FALSE
    /\ results' = <<>>
    /\ table' = <<>>
    /\ UNCHANGED <<books, file, attempt, attempts, title, author, book_id, choice>>

\* the criterion prompt of _get_search_choice
SearchChoice(e) ==
    /\ pc = "search_choice"
    /\ LET r == GetValidInput(e, MatchChoice(strip(e)), attempt)
       IN  \/ /\ r.kind = "value"
              /\ Goto("search_term")
              /\ choice' = r.value
              /\ UNCHANGED <<title, author, book_id, typed>>
           \/ Again(r)
           \/ /\ r.kind = "none"
              /\ Return(NoChange("no_choice", 0))
              /\ asked' = attempt + 1
              /\ UNCHANGED typed
    /\ UNCHANGED <<op, snapBooks, snapFile, status_input, results, table, origin, query, call, made>>

\* the term prompt of _perform_search, then the rest of search_book
SearchTerm(e) ==
    /\ pc = "search_term"
    /\ results' = PerformSearch(choice, e, books)
    /\ Return(NoChange(IF PerformSearch(choice, e, books) # <<>> THEN "found"
                       ELSE "nothing_found", 0))
    /\ query' = [choice |-> choice, term |-> e]
    /\ UNCHANGED <<op, snapBooks, snapFile, typed, status_input, asked, table, origin, call, made>>

\* display_all_books putting the mapping itself into the order of the table
DisplayAllBooksSorting ==
    /\ pc = "menu"
    /\ Begin("list")
    /\ prompted' = 0
    /\ table' = SortedRows(books)
    /\ outcome' = IF books = <<>> THEN "library_empty" ELSE "listed"
    /\ lastId' = 0
    /\ wrote' = FALSE
    /\ results' = <<>>
    /\ books' = CHOOSE d \in [1..Len(books) -> {books[i] : i \in 1..Len(books)}] :
                     \A i, j \in 1..Len(books) : i < j => d[i].key.v < d[j].key.v
    /\ UNCHANGED <<pc, file, attempt, attempts, title, author, book_id, choice>>

\* menu choice "4": display_all_books
DisplayAllBooks ==
    /\ pc = "menu"
    /\ Begin("list")
    /\ prompted' = 0
    /\ table' = SortedRows(books)
    /\ outcome' = IF books = <<>> THEN "library_empty" ELSE "listed"
    /\ lastId' = 0
    /\ wrote' = FALSE
    /\ results' = <<>>
    /\ UNCHANGED prog

\* menu choice "6": main returns
Exit ==
    /\ pc = "menu"
    /\ pc' = "exited"
    /\ Begin("exit")
    /\ prompted' = 0
    /\ outcome' = "none"
    /\ lastId' = 0
    /\ wrote' = FALSE
    /\ results' = <<>>
    /\ table' = <<>>
    /\ UNCHANGED <<books, file, attempt, attempts, title, author, book_id, choice>>

\* any other menu choice
BadChoice ==
    /\ pc = "menu"
    /\ Begin("menu")
    /\ prompted' = 0
    /\ outcome' = "bad_choice"
    /\ lastId' = 0
    /\ wrote' = FALSE
    /\ results' = <<>>
    /\ table' = <<>>
    /\ UNCHANGED prog

Next ==
    \/ Construct
    \/ ChooseAdd
    \/ \E e \in TitleEntries : AddTitle(e)
    \/ \E e \in AuthorEntries : AddAuthor(e)
    \/ \E e \in YearEntries : AddYear(e)
    \/ ChooseDelete
    \/ \E e \in IdEntries : DeleteId(e)
    \/ ChooseChange
    \/ \E e \in IdEntries : ChangeId(e)
    \/ \E e \in StatusEntries : ChangeStatus(e)
    \/ ChooseSearch
    \/ \E e \in ChoiceEntries : SearchChoice(e)
    \/ \E e \in TermEntries : SearchTerm(e)
    \/ DisplayAllBooks
    \/ Exit
    \/ BadChoice

Spec == Init /\ [][Next]_vars

\* loading, adding and leaving, over any backing file
NextLoad ==
    \/ Construct
    \/ ChooseAdd
    \/ \E e \in MoreTitleEntries : AddTitle(e)
    \/ \E e \in AuthorEntries : AddAuthor(e)
    \/ \E e \in MoreYearEntries : AddYear(e)
    \/ Exit

SpecLoad == InitAny /\ [][NextLoad]_vars

\* the program is started over the backing file of three different books
InitStored == InitOver({RichFile})

\* the whole menu, with more search terms and fewer status entries
NextStored ==
    \/ Construct
    \/ ChooseAdd
    \/ \E e \in TitleEntries : AddTitle(e)
    \/ \E e \in AuthorEntries : AddAuthor(e)
    \/ \E e \in YearEntries : AddYear(e)
    \/ ChooseDelete
    \/ \E e \in IdEntries : DeleteId(e)
    \/ ChooseChange
    \/ \E e \in IdEntries : ChangeId(e)
    \/ \E e \in FewStatusEntries : ChangeStatus(e)
    \/ ChooseSearch
    \/ \E e \in ChoiceEntries : SearchChoice(e)
    \/ \E e \in MoreTermEntries : SearchTerm(e)
    \/ DisplayAllBooks
    \/ Exit
    \/ BadChoice

SpecStored == InitStored /\ [][NextStored]_vars

\* one title, one year, and a few criteria and terms, for the specification
\* that follows the ids
FewTitleEntries == { <<"a", "B">> }

FewYearEntries == { <<"2", "0", "2", "6">> }

FewChoiceEntries == { <<"1">>, <<"3">> }

FewTermEntries == { <<"B">>, <<"2", "0">>, <<"z">> }

\* the program is started without a backing file
InitIds ==
    /\ pc = "init"
    /\ file = FileAbsent
    /\ call = NoCall
    /\ made = NotMade
    /\ freed = NoFreed
    /\ InitRest

\* the whole menu, with few entries for the fields of a book and for a search
NextIds ==
    \/ Construct
    \/ ChooseAdd
    \/ \E e \in FewTitleEntries : AddTitle(e)
    \/ \E e \in AuthorEntries : AddAuthor(e)
    \/ \E e \in FewYearEntries : AddYear(e)
    \/ ChooseDelete
    \/ \E e \in IdEntries : DeleteId(e)
    \/ ChooseChange
    \/ \E e \in IdEntries : ChangeId(e)
    \/ \E e \in FewStatusEntries : ChangeStatus(e)
    \/ ChooseSearch
    \/ \E e \in FewChoiceEntries : SearchChoice(e)
    \/ \E e \in FewTermEntries : SearchTerm(e)
    \/ DisplayAllBooks
    \/ Exit
    \/ BadChoice

SpecIds == InitIds /\ [][NextIds]_vars

(***************************************************************************)
(* book.py called directly, as tests/test_book.py calls it: one call of    *)
(* Book(...) or of Book.from_dict(...) on an argument from a bounded set.  *)
(***************************************************************************)
UpperAvailable == <<"CY_V", " ", "cy_n", "cy_a", "cy_l", "cy_i", "cy_ch", "cy_i", "cy_i">>

IdValues ==
    { PyInt(1), PyStr(<<"2">>), PyStr(<<"x">>), PyStr(<<"1", ".", "5">>),
      PyFloat(15), PyNone }

YearValues == { PyInt(2026), PyStr(<<"y">>), PyFloat(20265), PyNone }

TitleValues ==
    { PyStr(<<"a", "B">>), PyStr(<<>>), PyInt(123), PyInt(0), PyNone, PyList(0), PyList(1) }

AuthorValues == { PyStr(<<"C", "d">>), PyStr(<<>>), PyInt(123), PyNone }

StatusValues ==
    { PyStr(StatusValue(AVAILABLE)), PyStr(StatusValue(ISSUED)),
      PyStr(UpperAvailable), PyStr(<<" ">> \o StatusValue(ISSUED) \o <<" ">>),
      PyStr(<<"1">>), PyStr(<<"i", "s", "s", "u", "e", "d">>), PyInt(1), PyNone }

\* the mappings with all five keys
FullMappings ==
    [id : IdValues, title : {PyStr(<<"a", "B">>), PyInt(123)},
     author : {PyStr(<<"C", "d">>), PyStr(<<>>)}, year : YearValues, status : StatusValues]

\* the mapping d without the key k
Without(d, k) == [x \in (DOMAIN d) \ {k} |-> d[x]]

Mappings ==
    FullMappings \cup { Without(d, k) : d \in FullMappings, k \in required_keys }

\* keyword arguments Book(...) accepts: ids, years, titles and authors of
\* several shapes (padded with spaces, made of digits, equal to a status text)
ValidBookArgs ==
    [book_id : {PyInt(0), PyInt(1), PyInt(3)},
     title : {PyStr(<<" ", "a", " ">>), PyStr(<<"2", "0">>), PyStr(StatusValue(ISSUED))},
     author : {PyStr(<<"C", "d">>), PyStr(<<"1">>)},
     year : {PyInt(0), PyInt(1000), PyInt(2026)},
     status : {AVAILABLE, ISSUED}]

\* the keyword arguments of Book(...), without and with status
BookArgs ==
    [book_id : {PyInt(1), PyStr(<<"1">>), PyFloat(15), PyBool(1), PyNone},
     title : TitleValues, author : AuthorValues, year : {PyInt(2026), PyStr(<<"2", "0", "2", "6">>)}]
    \cup
    [book_id : {PyInt(1), PyNone}, title : {PyStr(<<"a", "B">>), PyNone},
     author : {PyStr(<<"C", "d">>)}, year : {PyInt(2026)}, status : {AVAILABLE, ISSUED}]
    \cup ValidBookArgs

Calls ==
    { [fn |-> "Book", kwargs |-> a] : a \in BookArgs }
    \cup { [fn |-> "from_dict", data |-> d] : d \in Mappings }

InitBook ==
    /\ pc = "call"
    /\ file = FileAbsent
    /\ call \in Calls
    /\ made = NotMade
    /\ freed = Unrecorded
    /\ InitRest

\* the call returns or raises
Returned(r) ==
    /\ made' = r
    /\ pc' = IF r.err = "ok" THEN "returned" ELSE "raised"
    /\ UNCHANGED <<books, file, attempt, attempts, title, author, book_id, choice>>
    /\ UNCHANGED <<op, outcome, snapBooks, snapFile, lastId, typed, status_input, asked,
                   wrote, results, table, origin, prompted, query, call, freed>>

\* Book(book_id=..., title=..., author=..., year=...[, status=...])
NewBook ==
    /\ pc = "call"
    /\ call.fn = "Book"
    /\ Returned(BookNew(call.kwargs))

\* Book.from_dict(data)
FromDict ==
    /\ pc = "call"
    /\ call.fn = "from_dict"
    /\ Returned(from_dict(call.data))

\* Book.from_dict(b.to_dict()) on the Book b a call of Book(...) returned
RoundTrip ==
    /\ pc = "returned"
    /\ call.fn = "Book"
    /\ made.book.status \in {AVAILABLE, ISSUED}
    /\ call' = [fn |-> "round_trip", book |-> made.book, data |-> to_dict(made.book)]
    /\ made' = from_dict(to_dict(made.book))
    /\ pc' = IF made'.err = "ok" THEN "returned" ELSE "raised"
    /\ UNCHANGED <<books, file, attempt, attempts, title, author, book_id, choice>>
    /\ UNCHANGED <<op, outcome, snapBooks, snapFile, lastId, typed, status_input, asked,
                   wrote, results, table, origin, prompted, query, freed>>

NextBook == NewBook \/ FromDict \/ RoundTrip

SpecBook == InitBook /\ [][NextBook]_vars

(***************************************************************************)
(* Properties                                                              *)
(***************************************************************************)
\* what a fresh Library() would hold, built over the backing file as it is
Reloaded == LoadLibrary(file)

Keys(bks) == { bks[i].key.v : i \in 1..Len(bks) }

\* the accepted Add entries as the numbers and text they stand for
TypedYear == ToInt(strip(typed.year))

\* an Add has just succeeded on a repository that had no books and no backing file
FirstAddDone ==
    /\ op = "add"
    /\ outcome = "added"
    /\ snapBooks = <<>>
    /\ snapFile = FileAbsent

\* C1 as stated: after the first Add on an empty repository a fresh Load holds
\* exactly one record, with id 1, the title, author and year exactly as entered,
\* and status Available.
C1_FirstAddAsEntered ==
    FirstAddDone =>
        /\ Reloaded.err = "ok"
        /\ Len(Reloaded.books) = 1
        /\ Reloaded.books[1].key = PyInt(1)
        /\ Reloaded.books[1].book =
               [id |-> 1, title |-> typed.title, author |-> typed.author,
                year |-> TypedYear, status |-> AVAILABLE]

\* C1 (amended): after the first Add on an empty repository a fresh Load holds
\* exactly one record, with id 1, the entered title and author with leading and
\* trailing whitespace removed, the entered year, and status Available.
C1_FirstAddStripped ==
    FirstAddDone =>
        /\ Reloaded.err = "ok"
        /\ Len(Reloaded.books) = 1
        /\ Reloaded.books[1].key = PyInt(1)
        /\ Reloaded.books[1].book =
               [id |-> 1, title |-> strip(typed.title), author |-> strip(typed.author),
                year |-> TypedYear, status |-> AVAILABLE]

C1_Witness ==
    /\ FirstAddDone
    /\ typed.title # strip(typed.title)
    /\ TypedYear = 1000

\* C2: a Delete of a present id removes exactly the record stored under that id,
\* leaves every other record as it was and in its place, rewrites the backing
\* file, and a fresh Load holds no record with that id and all the others.
C2_DeleteRemovesExactlyOne ==
    (op = "delete" /\ outcome = "deleted") =>
        /\ lastId \in Keys(snapBooks)
        /\ lastId \notin Keys(books)
        /\ Len(books) = Len(snapBooks) - 1
        /\ \A i \in 1..Len(snapBooks) :
               snapBooks[i].key.v # lastId =>
                   \E j \in 1..Len(books) : books[j] = snapBooks[i]
        /\ wrote
        /\ Reloaded.err = "ok"
        /\ lastId \notin Keys(Reloaded.books)
        /\ \A i \in 1..Len(snapBooks) :
               snapBooks[i].key.v # lastId =>
                   \E j \in 1..Len(Reloaded.books) : Reloaded.books[j] = snapBooks[i]
        /\ Len(Reloaded.books) = Len(snapBooks) - 1

C2_Witness ==
    /\ op = "delete"
    /\ outcome = "deleted"
    /\ Len(snapBooks) = 3
    /\ lastId = snapBooks[2].key.v

\* the status the specification's recognition rule gives an accepted entry
RecognizedAs(entry) ==
    IF entry \in {<<"1">>, StatusValue(AVAILABLE)} THEN AVAILABLE
    ELSE IF entry \in {<<"0">>, StatusValue(ISSUED)} THEN ISSUED
    ELSE None

\* Change-status has returned and its last accepted status entry was recognized
ChangeReturned ==
    /\ op = "change"
    /\ pc = "menu"
    /\ lastId \in Keys(snapBooks)
    /\ RecognizedAs(status_input) # None

\* C3: when Change-status returns after the entry "0" or the word for Issued on
\* an Available record, or "1" or the word for Available on an Issued record,
\* the record has the entered status, in memory and in a fresh Load.
C3_EntryChangesStatus ==
    (ChangeReturned
        /\ RecognizedAs(status_input) # DictGet(snapBooks, PyInt(lastId)).status) =>
        /\ outcome = "changed"
        /\ DictGet(books, PyInt(lastId)).status = RecognizedAs(status_input)
        /\ Reloaded.err = "ok"
        /\ DictGet(Reloaded.books, PyInt(lastId)).status = RecognizedAs(status_input)

\* C4: when Change-status returns after an entry recognized as the status the
\* record already has, it has reported that the book already has that status,
\* the mapping is as it was and the backing file was not rewritten.
C4_SameStatusIsNoOp ==
    (ChangeReturned
        /\ RecognizedAs(status_input) = DictGet(snapBooks, PyInt(lastId)).status) =>
        /\ outcome = "already"
        /\ books = snapBooks
        /\ file = snapFile
        /\ ~wrote

\* a Library has just been built over a backing file that is not valid JSON
LoadedInvalid == op = "load" /\ snapFile.kind = "invalid"

\* C5 as stated: building a Library over a backing file that is not valid JSON
\* raises a decode error to the caller, and no empty collection comes back.
C5_DecodeErrorRaised == LoadedInvalid => pc = "crashed"

\* C5 (amended): building a Library over a backing file that is not valid JSON
\* prints the decode error and returns an empty collection; nothing is raised.
C5_DecodeErrorPrinted ==
    LoadedInvalid =>
        /\ pc = "menu"
        /\ outcome = "json_decode_error"
        /\ books = <<>>

C5_Witness == LoadedInvalid /\ pc = "menu"

\* C6: after each completed Add, Delete or status change the backing file holds
\* exactly the serialization of the mapping, record by record in the mapping's
\* order, and a fresh Load yields the same records in the same order.
C6_FileTracksMemory ==
    (pc = "menu" /\ outcome \in {"added", "deleted", "changed"}) =>
        /\ wrote
        /\ file.kind = "valid"
        /\ Len(file.data) = Len(books)
        /\ \A i \in 1..Len(books) :
               file.data[i] =
                   [id |-> PyInt(books[i].book.id), title |-> PyStr(books[i].book.title),
                    author |-> PyStr(books[i].book.author),
                    year |-> PyInt(books[i].book.year),
                    status |-> PyStr(StatusValue(books[i].book.status))]
        /\ Reloaded.err = "ok"
        /\ Reloaded.books = books

C6_Witness ==
    /\ pc = "menu"
    /\ outcome = "changed"
    /\ Len(books) = 3
    /\ origin = "valid"

\* the constraints of a record held in memory under key
ValidRecord(e) ==
    /\ e.key = PyInt(e.book.id)
    /\ e.book.id >= 1
    /\ e.book.title # <<>>
    /\ e.book.author # <<>>
    /\ 1000 <= e.book.year
    /\ e.book.year <= current_year
    /\ e.book.status \in {AVAILABLE, ISSUED}

\* the constraints of a record of the backing file
ValidFileRecord(d) ==
    /\ DOMAIN d = required_keys
    /\ d.id.t = "int"
    /\ d.id.v >= 1
    /\ d.title.t = "str"
    /\ d.title.s # <<>>
    /\ d.author.t = "str"
    /\ d.author.s # <<>>
    /\ d.year.t = "int"
    /\ 1000 <= d.year.v
    /\ d.year.v <= current_year
    /\ d.status \in {PyStr(StatusValue(AVAILABLE)), PyStr(StatusValue(ISSUED))}

\* C7: in every state reached from an empty repository, every record in memory
\* and every record of the backing file satisfies the record constraints.
C7_RecordsValid ==
    origin = "absent" =>
        /\ \A i \in 1..Len(books) : ValidRecord(books[i])
        /\ \A i \in 1..Len(file.data) : ValidFileRecord(file.data[i])

C7_Witness ==
    /\ origin = "absent"
    /\ op = "load"
    /\ Len(books) = 3
    /\ \E i \in 1..Len(books) : books[i].book.status = ISSUED

\* C8: in every state the generated next id is 1 on an empty mapping and
\* otherwise one more than the largest id of the mapping as it is, and that is
\* the id a successful Add assigns, whatever ids were assigned and deleted before.
C8_NextIdIsMaxPlusOne ==
    /\ \A k \in Keys(books) : k < GenerateId(books)
    /\ GenerateId(books) = 1 \/ (GenerateId(books) - 1) \in Keys(books)
    /\ (op = "add" /\ outcome = "added") =>
           /\ \A k \in Keys(snapBooks) : k < lastId
           /\ lastId = 1 \/ (lastId - 1) \in Keys(snapBooks)

C8_Witness ==
    /\ op = "add"
    /\ outcome = "added"
    /\ lastId = 3
    /\ Keys(snapBooks) = {2}
    /\ origin = "absent"

\* C9: when Add, Delete, Change-status or Search returns without the value of a
\* prompted field, the mapping and the backing file are as they were when the
\* operation started, and nothing was written.
C9_AbortLeavesState ==
    (pc = "menu" /\ outcome \in {"no_data", "no_id", "no_status", "no_choice"}) =>
        /\ books = snapBooks
        /\ file = snapFile
        /\ ~wrote
        /\ GenerateId(books) = GenerateId(snapBooks)

C9_Witness ==
    /\ pc = "menu"
    /\ op = "add"
    /\ outcome = "no_data"
    /\ asked = max_attempts
    /\ file = FileAbsent

\* C10: Add gives up only when the _get_valid_input of one field has read three
\* entries and rejected them all.
C10_AddAbortsAfterThree == (op = "add" /\ outcome = "no_data") => asked = 3

\* the prompts of the validated fields: title, author, year, book id, search
\* criterion, new status
FieldPrompts ==
    {"add_title", "add_author", "add_year", "del_id", "chg_id", "search_choice",
     "chg_status"}

\* C11: within one operation every field is prompted at most 3 times: while a
\* field's prompt is showing, it is the first, second or third prompt for that
\* field, so after a third entry that did not end the operation no further
\* prompt for the field follows.
C11_FieldPromptedAtMostThrice == pc \in FieldPrompts => prompted <= 3

\* C12: Delete and Change-status given an id that is not in the repository
\* report 'not found' and leave the mapping and the backing file as they were,
\* writing nothing; the new status is prompted for only when the id is present.
C12_NotFoundLeavesState ==
    /\ (pc = "menu" /\ op \in {"delete", "change"} /\ outcome # "no_id"
            /\ lastId \notin Keys(snapBooks)) => outcome = "not_found"
    /\ outcome = "not_found" =>
           /\ op \in {"delete", "change"}
           /\ lastId \notin Keys(snapBooks)
           /\ books = snapBooks
           /\ file = snapFile
           /\ ~wrote
           /\ status_input = <<>>
    /\ pc = "chg_status" => lastId \in Keys(books)

C12_Witness ==
    /\ op = "change"
    /\ outcome = "not_found"
    /\ Keys(books) = {1, 3}
    /\ lastId = 2

\* Book.from_dict was called on the mapping call.data and has returned or raised
Deserialized == call.fn = "from_dict" /\ pc \in {"returned", "raised"}

HasAllKeys(d) == required_keys \subseteq DOMAIN d

\* a value that is no integer: a non-numeric string, a fractional number, a null
NotInteger(x) ==
    \/ x.t = "null"
    \/ x.t = "float" /\ x.v % 10 # 0
    \/ x.t = "str" /\ ~MatchId(strip(x.s))

\* the status a display string stands for when letter case and surrounding
\* whitespace are ignored
LooseStatus(v) ==
    IF strip(lower(v)) = lower(StatusValue(AVAILABLE)) THEN AVAILABLE
    ELSE IF strip(lower(v)) = lower(StatusValue(ISSUED)) THEN ISSUED
    ELSE None

\* a status value that is no status string under any reading
UnrecognizedStatus(x) == x.t # "str" \/ LooseStatus(x.s) = None

\* C13, missing keys: from_dict raises KeyError for a mapping lacking a key.
C13_MissingKey == (Deserialized /\ ~HasAllKeys(call.data)) => made.err = "KeyError"

\* C13, status: from_dict raises ValueError for an unrecognized status.
C13_BadStatus ==
    (Deserialized /\ HasAllKeys(call.data)
        /\ ~NotInteger(call.data.id) /\ ~NotInteger(call.data.year)
        /\ UnrecognizedStatus(call.data.status)) => made.err = "ValueError"

\* C13: from_dict raises KeyError for every mapping lacking one of the five
\* keys, ValueError for every mapping whose id or year is a non-numeric string,
\* a fractional number or a null, and ValueError for every mapping whose status
\* is not a recognized status string.
C13_FromDictErrors ==
    /\ C13_MissingKey
    /\ (Deserialized /\ HasAllKeys(call.data)
            /\ (NotInteger(call.data.id) \/ NotInteger(call.data.year))) =>
           made.err = "ValueError"
    /\ C13_BadStatus

\* from_dict was called on a mapping whose status is a string and whose other
\* fields are good
DeserializedStatus ==
    /\ Deserialized
    /\ HasAllKeys(call.data)
    /\ call.data.id.t = "int"
    /\ call.data.year.t = "int"
    /\ call.data.title.t = "str" /\ call.data.title.s # <<>>
    /\ call.data.author.t = "str" /\ call.data.author.s # <<>>
    /\ call.data.status.t = "str"

\* C14 as stated: from_dict matches the status against the two display strings
\* ignoring letter case and surrounding whitespace; a status that matches one
\* of them so deserializes to that status, any other raises ValueError.
C14_StatusMatchedLoosely ==
    DeserializedStatus =>
        IF LooseStatus(call.data.status.s) # None
        THEN made.err = "ok" /\ made.book.status = LooseStatus(call.data.status.s)
        ELSE made.err = "ValueError"

\* C14 (amended): from_dict matches the status against the two display strings
\* exactly; a status equal to one of them deserializes to that status, any
\* other, also one that differs only by letter case or surrounding whitespace,
\* raises ValueError.
C14_StatusMatchedExactly ==
    DeserializedStatus =>
        IF call.data.status.s = StatusValue(AVAILABLE)
        THEN made.err = "ok" /\ made.book.status = AVAILABLE
        ELSE IF call.data.status.s = StatusValue(ISSUED)
             THEN made.err = "ok" /\ made.book.status = ISSUED
             ELSE made.err = "ValueError" /\ made.book = NoBook

C14_Witness ==
    /\ DeserializedStatus
    /\ call.data.status.s = <<" ">> \o StatusValue(ISSUED) \o <<" ">>
    /\ made.err = "ValueError"

\* a is a run of consecutive characters of b
SubstringOf(a, b) ==
    \E pre \in 0..Len(b) :
        /\ pre + Len(a) <= Len(b)
        /\ \A k \in 1..Len(a) : b[pre + k] = a[k]

\* the same, letter case ignored
SubstringOfNoCase(a, b) ==
    \E pre \in 0..Len(b) :
        /\ pre + Len(a) <= Len(b)
        /\ \A k \in 1..Len(a) : LowerChar(b[pre + k]) = LowerChar(a[k])

\* the record b matches the query q = [choice, term] as the specification has it
MatchesQuery(b, q) ==
    LET inTitle == SubstringOfNoCase(q.term, b.title)
        inAuthor == SubstringOfNoCase(q.term, b.author)
        inYear == SubstringOf(q.term, Str(b.year))
    IN  \/ q.choice = <<"1">> /\ inTitle
        \/ q.choice = <<"2">> /\ inAuthor
        \/ q.choice = <<"3">> /\ inYear
        \/ q.choice = <<"4">> /\ (inTitle \/ inAuthor \/ inYear)

\* Search has run its query
Searched == op = "search" /\ pc = "menu" /\ outcome \in {"found", "nothing_found"}

\* C15: Search returns exactly the matching records: every record of the
\* repository that matches the query under the chosen criterion is among the
\* results, once, and every result is a record of the repository that matches.
C15_SearchReturnsExactlyMatches ==
    Searched =>
        /\ \A i \in 1..Len(books) :
               MatchesQuery(books[i].book, query) <=>
                   \E j \in 1..Len(results) : results[j] = books[i].book
        /\ \A j \in 1..Len(results) : \E i \in 1..Len(books) : books[i].book = results[j]
        /\ \A j, k \in 1..Len(results) : results[j] = results[k] => j = k
        /\ (outcome = "found") <=> (results # <<>>)

C15_Witness ==
    /\ Searched
    /\ query = [choice |-> <<"4">>, term |-> <<"a", "B">>]
    /\ Len(books) = 3
    /\ Len(results) = 3

\* the place of the book b in the mapping bks
PlaceIn(bks, b) == CHOOSE i \in 1..Len(bks) : bks[i].book = b

\* C16: the search results stand in the order in which their records stand in
\* the mapping, which is the order of the saved file and of a fresh Load of it.
C16_ResultsInInsertionOrder ==
    Searched =>
        /\ \A j, k \in 1..Len(results) :
               j < k => PlaceIn(books, results[j]) < PlaceIn(books, results[k])
        /\ Reloaded.err = "ok"
        /\ \A j \in 1..Len(results) :
               \E i \in 1..Len(Reloaded.books) : Reloaded.books[i].book = results[j]
        /\ \A j, k \in 1..Len(results) :
               j < k => PlaceIn(Reloaded.books, results[j]) < PlaceIn(Reloaded.books, results[k])

C16_Witness ==
    /\ Searched
    /\ file # RichFile
    /\ Len(results) = 3
    /\ results[1].id = 3
    /\ results[2].id = 1
    /\ results[3].id = 2

\* Book(...) was called on the arguments call.kwargs and has returned or raised
Constructed == call.fn = "Book" /\ pc \in {"returned", "raised"}

EmptyString(x) == x.t = "str" /\ x.s = <<>>

\* C17: Book(...) raises TypeError and makes no record when id or year is not
\* an int; else TypeError when title or author is any value that is not a
\* string; else ValueError when title or author is the empty string; else it
\* returns the record with the given fields, its status Available unless one
\* was passed.
C17_ConstructorErrors ==
    Constructed =>
        LET a == call.kwargs
        IN  IF a.book_id.t # "int" \/ a.year.t # "int"
            THEN made.err = "TypeError" /\ made.book = NoBook
            ELSE IF EmptyString(a.title) \/ EmptyString(a.author)
                 THEN /\ made.book = NoBook
                      /\ IF a.title.t = "str" /\ a.author.t = "str"
                         THEN made.err = "ValueError"
                         ELSE made.err \in {"ValueError", "TypeError"}
            ELSE IF a.title.t # "str" \/ a.author.t # "str"
                 THEN made.err = "TypeError" /\ made.book = NoBook
            ELSE /\ made.err = "ok"
                 /\ made.book =
                        [id |-> a.book_id.v, title |-> a.title.s, author |-> a.author.s,
                         year |-> a.year.v,
                         status |-> IF "status" \in DOMAIN a THEN a.status ELSE AVAILABLE]

\* C18: ids are unique: in every state no two records share a key or an id and
\* the id the next Add would assign is not in the mapping; a successful Add
\* assigned an id that no record had, so it replaced none: the mapping is the
\* one before, record for record, with the new record appended.
C18_AddNeverOverwrites ==
    /\ \A i, j \in 1..Len(books) :
           (books[i].key = books[j].key \/ books[i].book.id = books[j].book.id) => i = j
    /\ GenerateId(books) \notin Keys(books)
    /\ (op = "add" /\ outcome = "added") =>
           /\ lastId \notin Keys(snapBooks)
           /\ Len(books) = Len(snapBooks) + 1
           /\ SubSeq(books, 1, Len(snapBooks)) = snapBooks
           /\ books[Len(books)].key = PyInt(lastId)
           /\ books[Len(books)].book.id = lastId

C18_Witness ==
    /\ op = "add"
    /\ outcome = "added"
    /\ origin = "valid"
    /\ Len(snapBooks) = 2
    /\ lastId = 3

\* a step leaves the record with id k as it is, but for its status
KeepsRecord(k) ==
    LET b == DictGet(books, PyInt(k))
        c == DictGet(books', PyInt(k))
    IN  /\ c.id = b.id
        /\ c.title = b.title
        /\ c.author = b.author
        /\ c.year = b.year
        /\ c.status # b.status =>
               /\ op' = "change"
               /\ outcome' = "changed"
               /\ lastId' = k

\* a step in which Change-status sets the status
ChangesStatus == pc = "chg_status" /\ pc' = "menu" /\ outcome' = "changed"

\* C19: no step changes the id, title, author or year of a record that stays in
\* the repository, and only a successful Change-status of that record changes
\* its status; such a step changes the status of the targeted record and leaves
\* every other record, and the order of the records, as they were.
C19_OnlyStatusChanges ==
    [][ /\ \A k \in Keys(books) \cap Keys(books') : KeepsRecord(k)
        /\ ChangesStatus =>
               /\ Len(books') = Len(books)
               /\ \A i \in 1..Len(books) :
                      /\ books'[i].key = books[i].key
                      /\ books[i].key.v # lastId' => books'[i] = books[i]
                      /\ books[i].key.v = lastId' =>
                             books'[i].book.status # books[i].book.status ]_vars

C19_Witness ==
    /\ op = "change"
    /\ outcome = "changed"
    /\ lastId = 1
    /\ Len(books) = 3
    /\ books[2].book =
           [id |-> 1, title |-> <<"c">>, author |-> <<"a", "b">>, year |-> 2008,
            status |-> AVAILABLE]
    /\ books[1].book.status = AVAILABLE
    /\ books[3].book.status = AVAILABLE

\* the table row of the record e = [key, book]
RowOf(e) ==
    [id |-> e.key.v, title |-> e.book.title, author |-> e.book.author,
     year |-> e.book.year, status |-> StatusValue(e.book.status)]

\* C20: List prints one row for every record of the repository and no other
\* row, the rows in strictly ascending order of id, whatever the order of the
\* records in the mapping; for an empty repository it prints no row and reports
\* that the library is empty.
C20_ListSortedById ==
    op = "list" =>
        /\ books = <<>> => (outcome = "library_empty" /\ table = <<>>)
        /\ books # <<>> =>
               /\ outcome = "listed"
               /\ Len(table) = Len(books)
               /\ \A i \in 1..Len(books) : \E j \in 1..Len(table) : table[j] = RowOf(books[i])
               /\ \A i, j \in 1..Len(table) : i < j => table[i].id < table[j].id

C20_Witness ==
    /\ op = "list"
    /\ Len(books) = 3
    /\ books[1].key.v = 3
    /\ books[2].key.v = 1
    /\ table[1].id = 1
    /\ table[3].id = 3

\* C21: a Library built while there is no backing file holds an empty mapping,
\* nothing is raised and the missing file is reported; no step creates the
\* backing file but the return of a successful Add, Delete or Change-status.
C21_AbsentFileIsEmptyLibrary ==
    [][ /\ (op' = "load" /\ file = FileAbsent) =>
               /\ pc' = "menu"
               /\ outcome' = "file_not_found"
               /\ books' = <<>>
               /\ file' = FileAbsent
        /\ (file = FileAbsent /\ file' # FileAbsent) =>
               /\ outcome' \in {"added", "deleted", "changed"}
               /\ wrote'
               /\ file' = SaveLibrary(books') ]_vars

C21_Witness ==
    /\ op = "load"
    /\ pc = "menu"
    /\ outcome = "file_not_found"
    /\ books = <<>>
    /\ file = FileAbsent

\* every place where the program waits for an entry of the running operation
AllPrompts == FieldPrompts \cup {"search_term"}

\* the most prompts the running operation can still show, the one showing
\* included: the attempts left for this field and three for each field after it
PromptsLeft ==
    CASE pc = "add_title" -> (3 - attempt) + 6
      [] pc = "add_author" -> (3 - attempt) + 3
      [] pc = "add_year" -> 3 - attempt
      [] pc = "del_id" -> 3 - attempt
      [] pc = "chg_id" -> (3 - attempt) + 9
      [] pc = "chg_status" -> (3 - attempt) + 3 * (2 - attempts)
      [] pc = "search_choice" -> (3 - attempt) + 1
      [] pc = "search_term" -> 1
      [] OTHER -> 0

\* C22: an operation chosen from the menu starts with at most 12 prompts left,
\* every entry, whatever it is, leaves fewer prompts, and with none left the
\* program is back at the menu; the program leaves the menu loop only by the
\* choice of exit; an unrecognized menu choice returns to the menu with the
\* mapping and the backing file as they were.
C22_OperationsReturnToMenu ==
    [][ /\ pc = "menu" => (pc' \in AllPrompts \cup {"menu", "exited"} /\ PromptsLeft' <= 12)
        /\ pc \in AllPrompts =>
               /\ pc' \in AllPrompts \cup {"menu"}
               /\ PromptsLeft' < PromptsLeft
               /\ PromptsLeft' >= 0
               /\ PromptsLeft' = 0 <=> pc' = "menu"
        /\ pc' = "exited" => (pc = "menu" /\ op' = "exit")
        /\ outcome' = "bad_choice" =>
               /\ pc' = "menu"
               /\ books' = books
               /\ file' = file
               /\ ~wrote' ]_vars

C22_Witness ==
    /\ pc = "chg_status"
    /\ prompted = 9
    /\ attempt = 2
    /\ attempts = 2

\* a Book has been serialized and the mapping deserialized
RoundTripped == call.fn = "round_trip"

\* C23: for every Book the constructor returned with either status, to_dict
\* yields a mapping with exactly the keys id, title, author, year, status,
\* whose status is the status's display string, and from_dict of that mapping
\* returns a Book equal to the first in id, title, author, year and status.
C23_SerializationRoundTrips ==
    RoundTripped =>
        /\ DOMAIN call.data = required_keys
        /\ call.data.status = PyStr(StatusValue(call.book.status))
        /\ call.data.status.s \in {StatusValue(AVAILABLE), StatusValue(ISSUED)}
        /\ pc = "returned"
        /\ made.err = "ok"
        /\ made.book.id = call.book.id
        /\ made.book.title = call.book.title
        /\ made.book.author = call.book.author
        /\ made.book.year = call.book.year
        /\ made.book.status = call.book.status

C23_Witness ==
    /\ RoundTripped
    /\ call.book.status = ISSUED
    /\ call.book.id = 3
    /\ call.book.title = <<" ", "a", " ">>
    /\ made.book = call.book

\* the largest key of the mapping, 0 for the empty one
LargestKey(bks) == IF bks = <<>> THEN 0 ELSE Max(Keys(bks))

\* an Add has just succeeded
Added == op = "add" /\ outcome = "added" /\ pc = "menu"

\* an Add has just succeeded as the first Add or Change-status to succeed
\* since a Delete removed a record, so on the mapping that Delete left
AddedAfterDelete == Added /\ freed.id # 0 /\ freed.used

\* the Delete before that Add removed the record with the largest id
DeletedNewest == freed.id > LargestKey(snapBooks)

\* C24 as stated: when the record with the largest id is deleted and the next
\* operation to change the repository is a successful Add, the new record gets
\* the id the deleted record had, and id 1 when every record had been deleted;
\* an Add never assigns an id while a larger id is in the mapping.
C24_DeletedNewestIdReused ==
    /\ (AddedAfterDelete /\ DeletedNewest) => lastId = freed.id
    /\ (AddedAfterDelete /\ snapBooks = <<>>) => lastId = 1
    /\ Added => \A k \in Keys(snapBooks) : k < lastId

\* C24 (amended): when the record with the largest id is deleted and the next
\* operation to change the repository is a successful Add, the new record gets
\* the id one above the largest id that remained, and id 1 when no record
\* remained; that id is never above the deleted id and is the deleted id
\* exactly when the deleted id was one above the largest that remained; an Add
\* never assigns an id while a larger id is in the mapping.
C24_NewIdFollowsLargestRemaining ==
    /\ (AddedAfterDelete /\ DeletedNewest) =>
           /\ lastId = LargestKey(snapBooks) + 1
           /\ lastId <= freed.id
           /\ lastId = freed.id <=> freed.id = LargestKey(snapBooks) + 1
           /\ DictHas(books, PyInt(lastId))
           /\ DictHas(Reloaded.books, PyInt(lastId))
    /\ (AddedAfterDelete /\ snapBooks = <<>>) => lastId = 1
    /\ Added => \A k \in Keys(snapBooks) : k < lastId

C24_Witness ==
    /\ AddedAfterDelete
    /\ freed.id = 3
    /\ Keys(snapBooks) = {1}
    /\ lastId = 2

\* an Add has just succeeded while the backing file was still the one that is
\* not valid JSON, so as the first operation to write since the program started
AddedOverInvalid == Added /\ snapFile = FileInvalid

\* C25: building a Library over a backing file that is not valid JSON ends at
\* the menu with an empty mapping and the file untouched; the first successful
\* Add after it gives its record id 1 and replaces the file by an array of
\* that one record, so that a fresh Load returns the new record and nothing of
\* what the file held; an Add that is aborted leaves the file as it was.
C25_AddOverwritesInvalidFile ==
    /\ LoadedInvalid =>
           /\ pc \in {"menu", "exited"} \cup AllPrompts
           /\ op = "load" /\ pc = "menu" => (books = <<>> /\ file = FileInvalid)
    /\ AddedOverInvalid =>
           /\ snapBooks = <<>>
           /\ lastId = 1
           /\ wrote
           /\ file.kind = "valid"
           /\ Len(file.data) = 1
           /\ file.data[1].id = PyInt(1)
           /\ file.data[1].title = PyStr(strip(typed.title))
           /\ Reloaded.err = "ok"
           /\ Len(Reloaded.books) = 1
           /\ Reloaded.books = books
    /\ (op = "add" /\ pc = "menu" /\ outcome # "added" /\ snapFile = FileInvalid) =>
           (file = FileInvalid /\ books = <<>>)

C25_Witness ==
    /\ AddedOverInvalid
    /\ origin = "invalid"
    /\ file.kind = "valid"
    /\ Len(books) = 1

\* the place of the row with the id n in the rows
RowPlace(rows, n) == CHOOSE i \in 1..Len(rows) : rows[i].id = n

\* C26: in every state the program reaches when it was started without a
\* backing file, the keys of the mapping stand in strictly ascending order, and
\* so do the ids of the elements of the backing file and the keys of a fresh
\* Load of it; the results of a Search stand in strictly ascending order of id,
\* which is the order of their rows in the table List prints, and List prints
\* the rows in the order of the mapping.
C26_AscendingFromEmpty ==
    origin = "absent" =>
        /\ \A i, j \in 1..Len(books) : i < j => books[i].key.v < books[j].key.v
        /\ \A i, j \in 1..Len(file.data) : i < j => file.data[i].id.v < file.data[j].id.v
        /\ Reloaded.err = "ok"
        /\ \A i, j \in 1..Len(Reloaded.books) :
               i < j => Reloaded.books[i].key.v < Reloaded.books[j].key.v
        /\ Searched =>
               /\ \A j, k \in 1..Len(results) : j < k => results[j].id < results[k].id
               /\ \A j, k \in 1..Len(results) :
                      j < k => RowPlace(SortedRows(books), results[j].id)
                                   < RowPlace(SortedRows(books), results[k].id)
        /\ op = "list" => table = [i \in 1..Len(books) |-> RowOf(books[i])]

C26_Witness ==
    /\ origin = "absent"
    /\ Searched
    /\ Keys(books) = {1, 3}
    /\ Len(results) = 2
    /\ results[1].id = 1
    /\ results[2].id = 3
    /\ Len(file.data) = 2

\* C27: Search and List are read-only: from the choice in the menu to the
\* return to it, at every prompt and whatever the criterion and the term and
\* whether or not a record matches, the mapping (its records, their fields and
\* their order) and the backing file are what they were when the operation
\* began, and no step of the two operations changes either or writes the file.
C27_SearchAndListReadOnly ==
    [][ op' \in {"search", "list"} =>
            /\ books' = books
            /\ file' = file
            /\ books' = snapBooks'
            /\ file' = snapFile'
            /\ ~wrote' ]_vars

C27_Witness ==
    /\ Searched
    /\ outcome = "nothing_found"
    /\ query.choice = <<"4">>
    /\ Len(books) = 3
    /\ books[1].key.v = 3
    /\ books = snapBooks
    /\ file = RichFile

====
